---- MODULE Spec2Model ----
(***************************************************************************)
(* LastCellExecutionTracker (src/unnamed/part_000) and                     *)
(* JupyterUriProviderRegistration                                          *)
(* (src/src/kernels/jupyter/connection/jupyterUriProviderRegistration.ts)  *)
(* as two state machines over the host's key/value stores (Memento).       *)
(*                                                                         *)
(* A Memento update is asynchronous: the value written becomes visible to  *)
(* get when the update's promise resolves and is dropped when it rejects.  *)
(***************************************************************************)
EXTENDS Integers, Sequences, FiniteSets, TLC

\* ------------------------------------------------------------------------
\* Bounds of the model
\* ------------------------------------------------------------------------
\* execute_request messages recorded, callbacks chained, trackCellExecution calls
MaxMsgs == 2
MaxRequests == 2
MaxTrackings == 2

\* ------------------------------------------------------------------------
\* JavaScript values
\* ------------------------------------------------------------------------
\* undefined, for a number-typed field (msg ids, counts and times are >= 0)
Undefined == -1
\* NaN, what Date.getTime() gives for an unparsable date
NaN == -2

\* !x for a number-typed x
Falsy(x) == x \in {Undefined, NaN, 0}

\* ------------------------------------------------------------------------
\* The world of the tracker: servers, kernels, notebooks, cells
\* ------------------------------------------------------------------------
Servers == {"s1", "s2"}
Kernels == {"k1", "kL"}
Notebooks == {"nbA", "nbB", "nbU"}
Cells == {"a1", "a2", "b1", "u1"}

\* isRemoteConnection(kernel.kernelConnectionMetadata)
RemoteKernels == {"k1"}
isRemoteConnection(k) == k \in RemoteKernels
\* kernel.kernelConnectionMetadata.serverId (only a remote connection has one)
serverId(k) == IF k = "k1" THEN "s1" ELSE ""
\* cell.notebook
notebook(c) == IF c \in {"a1", "a2"} THEN "nbA" ELSE IF c = "b1" THEN "nbB" ELSE "nbU"
\* notebook.isUntitled
isUntitled(nb) == nb = "nbU"

\* The dates a kernel message header may carry, and new Date(d).getTime()
HeaderDates == {"not-a-date", "1970-01-01T00:00:00.005Z"}
DateGetTime(d) == IF d = "1970-01-01T00:00:00.005Z" THEN 5 ELSE NaN

\* content.execution_count of a received message: absent (or not a number), or a number
ExecutionCounts == {Undefined, 1}

MsgIds == 1..MaxMsgs

\* The fields of a Partial<CellExecutionInfo>, none of them set
EmptyInfo ==
    [msg_id |-> Undefined, kernelId |-> "", cellIndex |-> Undefined,
     startTime |-> Undefined, executionCount |-> Undefined]

\* The empty object {} (the default of workspaceMemento.get)
EmptyObject == [nb \in {} |-> EmptyInfo]


\* ------------------------------------------------------------------------
\* State of LastCellExecutionTracker
\* ------------------------------------------------------------------------
VARIABLES
    index,          \* cell.index of every cell
    session,        \* per remote kernel: kernel.session?.kernel exists
    activated,      \* activate() has subscribed onDidRemoveServerUris
    trackings,      \* per (cell, kernel): the anyMessageHandler closures alive
    calls,          \* the number of trackCellExecution calls so far
    executedCells,  \* WeakMap cell -> its info object (0: no entry)
    objs,           \* the info objects, named by the msg_id they were created with
    nextMsg,        \* the msg_id of the next execute_request a handler records
    sentFor,        \* history: per msg_id recorded, the cell the execute_request was sent for
    strayChanges,   \* history: <<parent, msg_id>> of the received messages that changed
                    \* an info whose msg_id is not their parent message id
    queue,          \* chainedPromises: the finally callbacks not yet run
    requests,       \* the number of callbacks chained so far
    inflight,       \* the workspaceMemento.update promises the chain is waiting on
    chainRejected,  \* chainedPromises is (or will settle as) a rejected promise
    memento,        \* workspaceMemento: state key -> value
    sequential,     \* history: the settled updates applied one after the other
    lastObserved,   \* history: per key and notebook, the info object last handed to trackLastExecution
    wiped           \* history: keys whose removal has completed with no execution recorded since

tvars == <<index, session, activated, trackings, calls, executedCells, objs, nextMsg,
          sentFor, strayChanges,
           queue, requests, inflight, chainRejected, memento, sequential, lastObserved, wiped>>

\* getStateKey(serverId)
StateKeyOf == [sid \in Servers |-> "LAST_EXECUTED_CELL_" \o sid]
getStateKey(sid) == StateKeyOf[sid]
StateKeys == {getStateKey(s) : s \in Servers}

\* notebook.uri.toString()
UriOf == [nb \in Notebooks |-> "file:///" \o nb \o ".ipynb"]
uri(nb) == UriOf[nb]
\* cell.document.uri.toString()
CellUriOf == [c \in Cells |-> "vscode-notebook-cell:/" \o notebook(c) \o ".ipynb#" \o c]
cellUri(c) == CellUriOf[c]
\* kernel.session.kernel.id
KernelIdOf == [k \in Kernels |-> k \o "-id"]
kernelId(k) == KernelIdOf[k]

\* undefined as a value of the store
NoValue == [present |-> FALSE, data |-> EmptyObject]

\* workspaceMemento.get(key, {})
MementoGet(key) == IF memento[key].present THEN memento[key].data ELSE EmptyObject

\* getLastTrackedCellExecution(notebook, kernel); EmptyInfo stands for undefined
getLastTrackedCellExecution(nb, k) ==
    IF isUntitled(nb) THEN EmptyInfo
    ELSE IF ~isRemoteConnection(k) THEN EmptyInfo
    ELSE LET data == MementoGet(getStateKey(serverId(k)))
         IN  IF uri(nb) \in DOMAIN data THEN data[uri(nb)] ELSE EmptyInfo

\* obj[key] = value
SetProperty(obj, key, value) ==
    [n \in DOMAIN obj \cup {key} |-> IF n = key THEN value ELSE obj[n]]
\* delete obj[key]
DeleteProperty(obj, key) == [n \in DOMAIN obj \ {key} |-> obj[n]]

\* What the workspace store holds when the window opens: the records an earlier
\* session left for notebook nbB, on server s1 and on server s2
EarlierInfo(sid) ==
    [msg_id |-> 99, kernelId |-> "earlier-" \o sid, cellIndex |-> 0,
     startTime |-> 5, executionCount |-> 1]
Restored ==
    [key \in StateKeys |->
        [present |-> TRUE,
         data |-> [n \in {uri("nbB")} |->
                     IF key = getStateKey("s1") THEN EarlierInfo("s1") ELSE EarlierInfo("s2")]]]

TInit ==
    /\ index = [c \in Cells |-> IF c = "a2" THEN 1 ELSE 0]
    /\ session = [k \in RemoteKernels |-> FALSE]
    /\ activated = FALSE
    /\ trackings = [t \in Cells \X Kernels |-> 0]
    /\ calls = 0
    /\ executedCells = [c \in Cells |-> 0]
    /\ objs = [m \in MsgIds |-> EmptyInfo]
    /\ nextMsg = 1
    /\ sentFor = [m \in MsgIds |-> ""]
    /\ strayChanges = {}
    /\ queue = <<>>
    /\ requests = 0
    /\ inflight = {}
    /\ chainRejected = FALSE
    /\ memento = Restored
    /\ sequential = Restored
    /\ lastObserved = [key \in StateKeys |-> [nb \in Notebooks |-> 0]]
    /\ wiped = [key \in StateKeys |-> FALSE]

\* ------------------------------------------------------------------------
\* The promise chain
\* ------------------------------------------------------------------------
\* A callback handed to chainedPromises.finally. History: n, the callback is the
\* n-th chained; clean, the keys of a removal whose update has not failed and for
\* which no execution has been recorded since the removal was requested.
TrackOp(key, c, m) ==
    [type |-> "track", id |-> key, cell |-> c, obj |-> m, servers |-> {}, n |-> 0, clean |-> {}]
DeleteOp(key, c) ==
    [type |-> "delete", id |-> key, cell |-> c, obj |-> 0, servers |-> {}, n |-> 0, clean |-> {}]
RemoveOp(keys) ==
    [type |-> "remove", id |-> "", cell |-> "", obj |-> 0, servers |-> keys, n |-> 0, clean |-> keys]

NotClean(op, key) == [op EXCEPT !.clean = @ \ {key}]

\* this.chainedPromises = this.chainedPromises.finally(op), on the record
\* c = [queue, requests, inflight, lastObserved, wiped]
ChainOp(c, op) ==
    LET nb == notebook(op.cell)
        callback == [op EXCEPT !.n = c.requests + 1]
    IN
    CASE op.type = "track" ->
            [queue |-> Append([i \in 1..Len(c.queue) |-> NotClean(c.queue[i], op.id)], callback),
             requests |-> c.requests + 1,
             inflight |-> {[u EXCEPT !.op = NotClean(@, op.id)] : u \in c.inflight},
             lastObserved |-> [c.lastObserved EXCEPT ![op.id][nb] = op.obj],
             wiped |-> [c.wiped EXCEPT ![op.id] = FALSE]]
      [] op.type = "delete" ->
            [c EXCEPT !.queue = Append(@, callback), !.requests = @ + 1,
                      !.lastObserved[op.id][nb] = 0]
      [] OTHER ->
            [c EXCEPT !.queue = Append(@, callback), !.requests = @ + 1,
                      !.lastObserved = [key \in StateKeys |->
                            IF key \in op.servers THEN [n \in Notebooks |-> 0] ELSE @[key]]]

RECURSIVE ChainAll(_, _)
ChainAll(c, ops) ==
    IF ops = <<>> THEN c ELSE ChainAll(ChainOp(c, Head(ops)), Tail(ops))

Chain(ops) ==
    LET c == ChainAll([queue |-> queue, requests |-> requests, inflight |-> inflight,
                       lastObserved |-> lastObserved, wiped |-> wiped], ops)
    IN  /\ c.requests <= MaxRequests
        /\ requests' = c.requests
        /\ queue' = c.queue
        /\ inflight' = c.inflight
        /\ lastObserved' = c.lastObserved
        /\ wiped' = c.wiped

\* ------------------------------------------------------------------------
\* Operations of LastCellExecutionTracker
\* ------------------------------------------------------------------------
activate ==
    /\ ~activated
    /\ activated' = TRUE
    /\ UNCHANGED <<index, session, trackings, calls, executedCells, objs, nextMsg, sentFor, strayChanges, queue,
                   requests, inflight, chainRejected, memento, sequential, lastObserved, wiped>>

\* The user moves cell a1 of notebook nbA below a2: the two swap their indexes
CellsMoved ==
    /\ index["a1"] = 0
    /\ index' = [index EXCEPT !["a1"] = index["a2"], !["a2"] = index["a1"]]
    /\ UNCHANGED <<session, activated, trackings, calls, executedCells, objs, nextMsg, sentFor, strayChanges, queue,
                   requests, inflight, chainRejected, memento, sequential, lastObserved, wiped>>

\* (mutant) the notebook is not checked: an untitled notebook's cell is tracked too
trackCellExecutionAnyNotebook(c, k) ==
    /\ calls < MaxTrackings
    /\ calls' = calls + 1
    /\ IF ~isRemoteConnection(k)
       THEN UNCHANGED <<trackings, executedCells>>
       ELSE /\ executedCells' = [executedCells EXCEPT ![c] = 0]
            /\ trackings' = [trackings EXCEPT ![<<c, k>>] = @ + 1]
    /\ UNCHANGED <<index, session, activated, objs, nextMsg, sentFor, strayChanges, queue, requests, inflight,
                   chainRejected, memento, sequential, lastObserved, wiped>>

\* trackCellExecution(cell, kernel): a new anyMessageHandler, connected by
\* hookUpSession at once when the kernel has a session and by onStarted otherwise
trackCellExecution(c, k) ==
    /\ calls < MaxTrackings
    /\ calls' = calls + 1
    /\ IF ~isRemoteConnection(k) \/ isUntitled(notebook(c))
       THEN UNCHANGED <<trackings, executedCells>>
       ELSE /\ executedCells' = [executedCells EXCEPT ![c] = 0]
            /\ trackings' = [trackings EXCEPT ![<<c, k>>] = @ + 1]
    /\ UNCHANGED <<index, session, activated, objs, nextMsg, sentFor, strayChanges, queue, requests, inflight,
                   chainRejected, memento, sequential, lastObserved, wiped>>

\* kernel.onStarted fires: hookUpSession connects the handlers of that kernel
hookUpSession(k) ==
    /\ session' = [session EXCEPT ![k] = TRUE]
    /\ UNCHANGED <<index, activated, trackings, calls, executedCells, objs, nextMsg, sentFor, strayChanges, queue, requests,
                   inflight, chainRejected, memento, sequential, lastObserved, wiped>>

\* Whether handler t = <<cell, kernel>> is connected to the kernel's anyMessage
Connected(t) == trackings[t] > 0 /\ session[t[2]]

\* Whether some connected handler of kernel k records the request sent for cellId
Records(k, msgType, cellId) ==
    \E t \in DOMAIN trackings :
        /\ Connected(t)
        /\ t[2] = k
        /\ msgType = "execute_request"
        /\ cellId = cellUri(t[1])

\* anyMessageHandler, msg.direction === 'send': every connected handler of kernel k
\* sees the message; its msg_id is new
anyMessageSend(k, msgType, cellId) ==
    IF ~Records(k, msgType, cellId)
    THEN UNCHANGED tvars
    ELSE /\ nextMsg <= MaxMsgs
         /\ \E c \in Cells :
              /\ cellUri(c) = cellId
              /\ executedCells' = [executedCells EXCEPT ![c] = nextMsg]
              /\ objs' = [objs EXCEPT ![nextMsg] =
                    [EmptyInfo EXCEPT !.msg_id = nextMsg, !.kernelId = kernelId(k),
                                      !.cellIndex = index[c]]]
              /\ sentFor' = [sentFor EXCEPT ![nextMsg] = c]
         /\ nextMsg' = nextMsg + 1
         /\ UNCHANGED <<index, session, activated, trackings, calls, queue, requests, inflight,
                        chainRejected, memento, sequential, lastObserved, wiped, strayChanges>>

\* trackLastExecution(cell, kernel, info): the callbacks it chains (none or one);
\* m names the info object, info is its content at the call
trackLastExecution(c, k, m, info) ==
    IF Falsy(info.executionCount) /\ Falsy(info.msg_id) /\ Falsy(info.startTime) THEN <<>>
    ELSE IF ~isRemoteConnection(k) THEN <<>>
    ELSE <<TrackOp(getStateKey(serverId(k)), c, m)>>

\* (mutant) any received message is taken for a reply to the request recorded
CorrelatesAnyParent(info, parent) == ~Falsy(info.msg_id)

\* Whether the handler of cell t[1] takes a received message for a reply to the
\* request it recorded: info?.msg_id && getParentHeaderMsgId(ioPub) === info.msg_id
Correlates(info, parent) == ~Falsy(info.msg_id) /\ parent = info.msg_id

\* (mutant) the handler never sets the start time
StartTimeNeverSet(info, date) == info.startTime

\* The start time a handler leaves in info
StartTime(info, date) ==
    IF Falsy(info.startTime) THEN DateGetTime(date) ELSE info.startTime

\* Whether a handler takes count for the execution count of info's execution
Observes(info, count) ==
    /\ count # Undefined
    /\ Falsy(info.executionCount)
    /\ info.executionCount # count

\* What one handler t = <<cell, kernel>> does with a received message, on
\* st = [objs, ops, trackings, stray]: the info objects, the callbacks chained so
\* far, the handlers not disposed, the changes made to an info of another msg_id
HandleRecv(t, st, k, parent, date, count) ==
    LET m == executedCells[t[1]]
        info == IF m = 0 THEN EmptyInfo ELSE st.objs[m]
        info1 == [info EXCEPT !.startTime = StartTime(info, date)]
        observed == Observes(info1, count)
        info2 == IF observed THEN [info1 EXCEPT !.executionCount = count] ELSE info1
    IN  IF ~(session[t[2]] /\ t[2] = k /\ m # 0 /\ Correlates(info, parent)) THEN st
        ELSE [objs |-> [st.objs EXCEPT ![m] = info2],
              ops |-> IF observed THEN st.ops \o trackLastExecution(t[1], t[2], m, info2)
                      ELSE st.ops,
              trackings |-> IF observed THEN [st.trackings EXCEPT ![t] = @ - 1]
                            ELSE st.trackings,
              stray |-> IF info2 # info /\ parent # info.msg_id
                        THEN st.stray \cup {<<parent, info.msg_id>>} ELSE st.stray]

\* The signal calls the n handlers of <<cell, kernel>> one after the other
RECURSIVE HandleAll(_, _, _, _, _, _, _)
HandleAll(t, n, st, k, parent, date, count) ==
    IF n = 0 THEN st
    ELSE HandleAll(t, n - 1, HandleRecv(t, st, k, parent, date, count), k, parent, date, count)

RECURSIVE Deliver(_, _, _, _, _, _)
Deliver(pairs, st, k, parent, date, count) ==
    IF pairs = {} THEN st
    ELSE LET t == CHOOSE x \in pairs : TRUE
         IN  Deliver(pairs \ {t}, HandleAll(t, trackings[t], st, k, parent, date, count),
                     k, parent, date, count)

\* anyMessageHandler, msg.direction === 'recv': the signal calls every handler
anyMessageRecv(k, parent, date, count) ==
    LET st == Deliver({t \in DOMAIN trackings : trackings[t] > 0},
                      [objs |-> objs, ops |-> <<>>, trackings |-> trackings,
                       stray |-> strayChanges],
                      k, parent, date, count)
    IN  /\ objs' = st.objs
        /\ strayChanges' = st.stray
        /\ trackings' = st.trackings
        /\ Chain(st.ops)
        /\ UNCHANGED <<index, session, activated, calls, executedCells, nextMsg, sentFor,
                       chainRejected, memento, sequential>>

\* deleteTrackedCellExecution(cell, kernel)
deleteTrackedCellExecution(c, k) ==
    IF isUntitled(notebook(c)) THEN UNCHANGED tvars
    ELSE IF ~isRemoteConnection(k) THEN UNCHANGED tvars
    ELSE /\ Chain(<<DeleteOp(getStateKey(serverId(k)), c)>>)
         /\ UNCHANGED <<index, session, activated, trackings, calls, executedCells, objs,
                        nextMsg, sentFor, strayChanges, chainRejected, memento, sequential>>

\* onDidRemoveServerUris(removedServers)
onDidRemoveServerUris(removedServers) ==
    /\ Chain(<<RemoveOp({getStateKey(sid) : sid \in removedServers})>>)
    /\ UNCHANGED <<index, session, activated, trackings, calls, executedCells, objs,
                   nextMsg, sentFor, strayChanges, chainRejected, memento, sequential>>

\* ------------------------------------------------------------------------
\* The callbacks of the chain and the store's updates
\* ------------------------------------------------------------------------
\* workspaceMemento.update(key, value), not yet settled
Update(key, value) == [key |-> key, value |-> value]
Object(data) == [present |-> TRUE, data |-> data]

\* (mutant) the first record of a notebook is kept: a later execution does not overwrite it
trackCallbackKeepsRecord(op) ==
    LET notebookId == uri(notebook(op.cell))
        currentState == MementoGet(op.id)
    IN  [throws |-> FALSE,
         updates |-> IF notebookId \in DOMAIN currentState THEN {}
                     ELSE {Update(op.id, Object(SetProperty(currentState, notebookId, objs[op.obj])))}]

\* The callback of trackLastExecution: the updates it awaits, and whether it throws
trackCallback(op) ==
    LET notebookId == uri(notebook(op.cell))
        currentState == MementoGet(op.id)
    IN  [throws |-> FALSE,
         updates |-> {Update(op.id, Object(SetProperty(currentState, notebookId, objs[op.obj])))}]

\* (mutant) the record is deleted when its cell index differs from the cell's
deleteCallbackOnMismatch(op) ==
    LET notebookId == uri(notebook(op.cell))
        currentState == MementoGet(op.id)
    IN  IF notebookId \notin DOMAIN currentState
        THEN [throws |-> TRUE, updates |-> {}]
        ELSE IF currentState[notebookId].cellIndex # index[op.cell]
        THEN [throws |-> FALSE,
              updates |-> {Update(op.id, Object(DeleteProperty(currentState, notebookId)))}]
        ELSE [throws |-> FALSE, updates |-> {}]

\* The callback of deleteTrackedCellExecution; currentState[notebookId].cellIndex
\* is a TypeError when the notebook has no record
deleteCallback(op) ==
    LET notebookId == uri(notebook(op.cell))
        currentState == MementoGet(op.id)
    IN  IF notebookId \notin DOMAIN currentState
        THEN [throws |-> TRUE, updates |-> {}]
        ELSE IF currentState[notebookId].cellIndex = index[op.cell]
        THEN [throws |-> FALSE,
              updates |-> {Update(op.id, Object(DeleteProperty(currentState, notebookId)))}]
        ELSE [throws |-> FALSE, updates |-> {}]

\* (mutant) only one of the removed servers is wiped
removeCallbackFirstOnly(op) ==
    [throws |-> FALSE,
     updates |-> {Update(key, NoValue) : key \in {CHOOSE k \in op.servers : TRUE}}]

\* The callback of onDidRemoveServerUris: Promise.all of one update per server
removeCallback(op) ==
    [throws |-> FALSE, updates |-> {Update(key, NoValue) : key \in op.servers}]

Callback(op) ==
    CASE op.type = "track" -> trackCallback(op)
      [] op.type = "delete" -> deleteCallback(op)
      [] OTHER -> removeCallback(op)

\* (mutant) the callbacks are not chained: each runs without waiting for the updates
\* of the one before
SettledAtOnce == TRUE

\* promise.finally(callback) calls the callback once the promise has settled:
\* the previous callback has returned and the updates it returned have settled
Settled == inflight = {}

\* The next callback of the chain
NextCallback == Head(queue)

\* The chain runs its next callback
runCallback ==
    /\ queue # <<>>
    /\ Settled
    /\ LET op == NextCallback
           r == Callback(op)
       IN  /\ queue' = Tail(queue)
           /\ inflight' = inflight \cup {[key |-> u.key, value |-> u.value, op |-> op] : u \in r.updates}
           /\ chainRejected' = (chainRejected \/ r.throws)
    /\ UNCHANGED <<index, session, activated, trackings, calls, executedCells, objs, nextMsg, sentFor, strayChanges,
                   requests, memento, sequential, lastObserved, wiped>>

\* History: what a settled update does to the store when the updates are applied
\* one after the other
Applied(store, u) ==
    LET old == IF store[u.key].present THEN store[u.key].data ELSE EmptyObject
        notebookId == uri(notebook(u.op.cell))
    IN  CASE u.op.type = "track" ->
                [store EXCEPT ![u.key] = Object(SetProperty(old, notebookId, u.value.data[notebookId]))]
          [] u.op.type = "delete" ->
                [store EXCEPT ![u.key] = Object(DeleteProperty(old, notebookId))]
          [] OTHER -> [store EXCEPT ![u.key] = NoValue]

\* workspaceMemento.update settles: resolved (ok), the value is stored; rejected,
\* it is not (.then(noop, noop) swallows the rejection). History: a removal whose
\* last update settles has wiped the keys still clean.
updateSettles(u, ok) ==
    LET clean == IF ok THEN u.op.clean ELSE u.op.clean \ {u.key}
        others == {v \in inflight \ {u} : v.op.n = u.op.n}
    IN
    /\ u \in inflight
    /\ inflight' = {IF v \in others THEN [v EXCEPT !.op.clean = clean] ELSE v : v \in inflight \ {u}}
    /\ memento' = IF ok THEN [memento EXCEPT ![u.key] = u.value] ELSE memento
    /\ sequential' = IF ok THEN Applied(sequential, u) ELSE sequential
    /\ wiped' = IF u.op.type = "remove" /\ others = {}
                THEN [key \in StateKeys |-> key \in clean \/ wiped[key]] ELSE wiped
    /\ lastObserved' =
            IF ~ok /\ u.op.type = "track" /\ lastObserved[u.key][notebook(u.op.cell)] = u.op.obj
            THEN [lastObserved EXCEPT ![u.key][notebook(u.op.cell)] = 0]
            ELSE lastObserved
    /\ UNCHANGED <<index, session, activated, trackings, calls, executedCells, objs, nextMsg, sentFor, strayChanges,
                   queue, requests, chainRejected>>

\* The (cell, kernel) pairs the operations are called with: the notebooks run on
\* the remote kernel k1, and one call has the local kernel
Calls == {<<"a1", "k1">>, <<"a2", "k1">>, <<"b1", "k1">>, <<"u1", "k1">>, <<"a1", "kL">>}

\* The messages the kernels send: an execute_request for each cell, a request of
\* another type, a request without cellId metadata, a request of the local kernel
Sent ==
    {<<"k1", "execute_request", cellUri(c)>> : c \in Cells}
    \cup {<<"k1", "kernel_info_request", cellUri("a1")>>,
          <<"k1", "execute_request", "">>,
          <<"kL", "execute_request", cellUri("a1")>>}

\* The messages the kernels receive: <<kernel, parent msg_id, header date, execution_count>>
Received ==
    ({"k1"} \X MsgIds \X HeaderDates \X ExecutionCounts)
    \cup {<<"kL", 1, "1970-01-01T00:00:00.005Z", 1>>}

\* The servers serverStorage.onDidRemove reports
Removals == {{"s1"}, {"s1", "s2"}}

\* activate() is called when the extension starts (IExtensionSyncActivationService),
\* before kernels run and servers are removed
TNext ==
    \/ activate
    \/ /\ activated
       /\ \/ CellsMoved
          \/ \E call \in Calls : trackCellExecution(call[1], call[2])
          \/ \E k \in RemoteKernels : hookUpSession(k)
          \/ \E msg \in Sent : anyMessageSend(msg[1], msg[2], msg[3])
          \/ \E msg \in Received : anyMessageRecv(msg[1], msg[2], msg[3], msg[4])
          \/ \E call \in Calls : deleteTrackedCellExecution(call[1], call[2])
          \/ \E removed \in Removals : onDidRemoveServerUris(removed)
          \/ runCallback
          \/ \E u \in inflight, ok \in BOOLEAN : updateSettles(u, ok)

\* ------------------------------------------------------------------------
\* The world of JupyterUriProviderRegistration: extensions and providers
\* ------------------------------------------------------------------------
\* Calls made to the registry: registerProvider, dispose, the lookups, providers
MaxCalls == 4

JVSC_EXTENSION_ID == "ms-toolsai.jupyter"

\* extensions.all: the installed extensions
Installed == {JVSC_EXTENSION_ID, "e1", "e2", "e3"}
OtherExtensions == Installed \ {JVSC_EXTENSION_ID}

\* e.packageJSON?.contributes?.pythonRemoteServerProvider
contributes(e) == e \in {JVSC_EXTENSION_ID, "e2"}

ProviderIds == {"p1", "p2"}

\* The handles a provider's getHandles() returns, and the handles asked for
Handles == {"h1", "gone"}
getHandles(id) == {"h1"}

\* An entry of the persisted list and of providerExtensionMapping
Entry(providerId, extensionId) == [extensionId |-> extensionId, providerId |-> providerId]

\* The list an earlier session left under REGISTRATION_ID_EXTENSION_OWNER_MEMENTO_KEY
PersistedList == <<Entry("p1", "e1")>>

\* ------------------------------------------------------------------------
\* State of JupyterUriProviderRegistration
\* ------------------------------------------------------------------------
VARIABLES
    status,         \* per installed extension: inactive, activating, active, failed
    providers,      \* _providers: provider id -> its registration (0: none)
    regs,           \* the registrations made, each with the handle registerProvider returned
    providerExtensionMapping,   \* Map providerId -> extensionId, in insertion order
    loadedOtherExtensionsPromise,   \* "undefined", or "created" once loadOtherExtensions ran
    awaiting,       \* the activate() promises the load's Promise.all still waits for
    globalMemento,  \* the persisted list
    updates,        \* globalMemento.update calls not yet completed, oldest first
    lookups,        \* lookups waiting at `await this.loadOtherExtensions()`
    rcalls,         \* calls made to the registry
    lastCall,       \* history: the last call or continuation, what it returned, the events it fired
    owner,          \* history: per provider id, the extension that last registered it
    writeFailed,    \* history: an update of the list was rejected
    listAtLoad,     \* history: the persisted list when the load read it
    activations     \* history: per extension, the activate() calls the registry made

rvars == <<status, providers, regs, providerExtensionMapping, loadedOtherExtensionsPromise,
           awaiting, globalMemento, updates, lookups, rcalls, lastCall, owner, writeFailed,
           listAtLoad, activations>>

\* Map.has, Map.get and Map.set on a Map kept as the sequence of its entries
MapHas(map, providerId) == \E i \in 1..Len(map) : map[i].providerId = providerId
MapGet(map, providerId) ==
    IF MapHas(map, providerId)
    THEN map[CHOOSE i \in 1..Len(map) : map[i].providerId = providerId].extensionId
    ELSE ""
MapSet(map, providerId, extensionId) ==
    IF MapHas(map, providerId)
    THEN [i \in 1..Len(map) |-> IF map[i].providerId = providerId
                                THEN Entry(providerId, extensionId) ELSE map[i]]
    ELSE Append(map, Entry(providerId, extensionId))

\* loadExistingProviderExtensionMapping: every entry of the persisted list is set in the map
RECURSIVE loadExistingProviderExtensionMapping(_, _)
loadExistingProviderExtensionMapping(map, registeredList) ==
    IF registeredList = <<>> THEN map
    ELSE loadExistingProviderExtensionMapping(
             MapSet(map, Head(registeredList).providerId, Head(registeredList).extensionId),
             Tail(registeredList))

\* updateRegistrationInfo up to its await: the map it leaves and the list it writes
updateRegistrationInfo(map, registeredList, providerId, extensionId) ==
    LET loaded == loadExistingProviderExtensionMapping(map, registeredList)
        set == MapSet(loaded, providerId, extensionId)
        newList == [i \in 1..Len(set) |-> Entry(set[i].providerId, set[i].extensionId)]
    IN  [map |-> set, newList |-> newList]

\* e.isActive
isActive(e) == status[e] = "active"

\* (mutant) the owners in the persisted list are not considered
extensionsContributing(registeredList) ==
    {e \in Installed : contributes(e) /\ e # JVSC_EXTENSION_ID}

\* The extensions loadOtherExtensionsImpl considers
extensions(registeredList) ==
    LET extensionIds == {registeredList[i].extensionId : i \in 1..Len(registeredList)}
    IN  {e \in Installed : (contributes(e) \/ e \in extensionIds) /\ e # JVSC_EXTENSION_ID}

\* The load has finished: the promise of loadOtherExtensions is resolved
Loaded == loadedOtherExtensionsPromise = "created" /\ awaiting = {}

\* No call yet
NoCall == [op |-> "", id |-> "", extensionId |-> "", outcome |-> "", fired |-> 0,
           result |-> {}]
\* A call: its outcome ("returned", "pending" at an await, or the error thrown), the
\* onDidChangeProviders events it fired, the registrations it returned
Call(op, id, extensionId, outcome, fired, result) ==
    [op |-> op, id |-> id, extensionId |-> extensionId, outcome |-> outcome, fired |-> fired,
     result |-> result]

RInit ==
    /\ status = [e \in Installed |-> IF e = JVSC_EXTENSION_ID THEN "active" ELSE "inactive"]
    /\ providers = [id \in ProviderIds |-> 0]
    /\ regs = <<>>
    /\ providerExtensionMapping = <<>>
    /\ loadedOtherExtensionsPromise = "undefined"
    /\ awaiting = {}
    /\ globalMemento = PersistedList
    /\ updates = <<>>
    /\ lookups = {}
    /\ rcalls = 0
    /\ lastCall = NoCall
    /\ owner = [id \in ProviderIds |-> MapGet(PersistedList, id)]
    /\ writeFailed = FALSE
    /\ listAtLoad = <<>>
    /\ activations = [e \in Installed |-> 0]

\* ------------------------------------------------------------------------
\* Operations of JupyterUriProviderRegistration
\* ------------------------------------------------------------------------
\* loadOtherExtensionsImpl up to its await: activate() is called on every extension
\* considered that is not active; the promise of an activation that has failed is
\* rejected already
loadOtherExtensionsImpl ==
    LET considered == extensions(globalMemento)
    IN  /\ providerExtensionMapping' =
               loadExistingProviderExtensionMapping(providerExtensionMapping, globalMemento)
        /\ status' = [e \in Installed |->
                         IF e \in considered /\ status[e] = "inactive"
                         THEN "activating" ELSE status[e]]
        /\ awaiting' = {e \in considered : ~isActive(e) /\ status[e] # "failed"}
        /\ listAtLoad' = globalMemento
        /\ activations' = [e \in Installed |->
                              IF e \in considered /\ ~isActive(e)
                              THEN activations[e] + 1 ELSE activations[e]]

\* (mutant) the promise is not kept: every call loads again
loadOtherExtensionsAgain ==
    /\ loadOtherExtensionsImpl
    /\ loadedOtherExtensionsPromise' = "created"

\* loadOtherExtensions: the load is started once, its promise kept
loadOtherExtensions ==
    IF loadedOtherExtensionsPromise = "undefined"
    THEN /\ loadOtherExtensionsImpl
         /\ loadedOtherExtensionsPromise' = "created"
    ELSE UNCHANGED <<providerExtensionMapping, status, awaiting, listAtLoad,
                     loadedOtherExtensionsPromise, activations>>

\* Array.from(this._providers.values())
Registered == {providers[id] : id \in ProviderIds} \ {0}

\* The host activates an extension on one of its activation events
hostActivates(e) ==
    /\ status[e] = "inactive"
    /\ status' = [status EXCEPT ![e] = "activating"]
    /\ UNCHANGED <<providers, regs, providerExtensionMapping, loadedOtherExtensionsPromise,
                   awaiting, globalMemento, updates, lookups, rcalls, lastCall, owner,
                   writeFailed, listAtLoad, activations>>

\* (mutant) a rejected activate() is not caught: the load never resolves
activationSettlesUncaught(e, ok) ==
    /\ status[e] = "activating"
    /\ status' = [status EXCEPT ![e] = IF ok THEN "active" ELSE "failed"]
    /\ awaiting' = IF ok THEN awaiting \ {e} ELSE awaiting
    /\ UNCHANGED <<providers, regs, providerExtensionMapping, loadedOtherExtensionsPromise,
                   globalMemento, updates, lookups, rcalls, lastCall, owner, writeFailed,
                   listAtLoad, activations>>

\* The activate() of an extension settles: resolved (active) or rejected
activationSettles(e, ok) ==
    /\ status[e] = "activating"
    /\ status' = [status EXCEPT ![e] = IF ok THEN "active" ELSE "failed"]
    /\ awaiting' = awaiting \ {e}
    /\ UNCHANGED <<providers, regs, providerExtensionMapping, loadedOtherExtensionsPromise,
                   globalMemento, updates, lookups, rcalls, lastCall, owner, writeFailed,
                   listAtLoad, activations>>

\* (mutant) the new provider replaces the one registered under the id
registerProviderReplaces(id, extensionId) ==
    /\ rcalls < MaxCalls
    /\ status[extensionId] \in {"activating", "active"}
    /\ rcalls' = rcalls + 1
    /\ LET r == updateRegistrationInfo(providerExtensionMapping, globalMemento, id, extensionId)
       IN  /\ providerExtensionMapping' = r.map
           /\ updates' = Append(updates, r.newList)
           /\ regs' = Append(regs, [id |-> id, extensionId |-> extensionId,
                                    inLoad |-> extensionId \in awaiting, removed |-> FALSE])
           /\ providers' = [providers EXCEPT ![id] = Len(regs) + 1]
           /\ owner' = [owner EXCEPT ![id] = extensionId]
           /\ lastCall' = Call("registerProvider", id, extensionId, "returned", 1,
                               {Len(regs) + 1})
    /\ UNCHANGED <<status, loadedOtherExtensionsPromise, awaiting, globalMemento, lookups,
                   writeFailed, listAtLoad, activations>>

\* registerProvider(provider, extensionId), called by an extension that is running
registerProvider(id, extensionId) ==
    /\ rcalls < MaxCalls
    /\ status[extensionId] \in {"activating", "active"}
    /\ rcalls' = rcalls + 1
    /\ IF providers[id] = 0
       THEN LET r == updateRegistrationInfo(providerExtensionMapping, globalMemento,
                                            id, extensionId)
            IN  /\ providerExtensionMapping' = r.map
                /\ updates' = Append(updates, r.newList)
                /\ regs' = Append(regs, [id |-> id, extensionId |-> extensionId,
                                         inLoad |-> extensionId \in awaiting,
                                         removed |-> FALSE])
                /\ providers' = [providers EXCEPT ![id] = Len(regs) + 1]
                /\ owner' = [owner EXCEPT ![id] = extensionId]
                /\ lastCall' = Call("registerProvider", id, extensionId, "returned", 1,
                                    {Len(regs) + 1})
       ELSE /\ lastCall' = Call("registerProvider", id, extensionId, "already exists", 0, {})
            /\ UNCHANGED <<providerExtensionMapping, updates, regs, providers, owner>>
    /\ UNCHANGED <<status, loadedOtherExtensionsPromise, awaiting, globalMemento, lookups,
                   writeFailed, listAtLoad, activations>>

\* dispose() of the handle registerProvider returned for registration n
dispose(n) ==
    /\ rcalls < MaxCalls
    /\ n \in 1..Len(regs)
    /\ rcalls' = rcalls + 1
    /\ LET id == regs[n].id
       IN  /\ providers' = [providers EXCEPT ![id] = 0]
           /\ regs' = [m \in 1..Len(regs) |->
                          IF m = providers[id] THEN [regs[m] EXCEPT !.removed = TRUE]
                          ELSE regs[m]]
           /\ lastCall' = Call("dispose", id, regs[n].extensionId, "returned", 1, {n})
    /\ UNCHANGED <<status, providerExtensionMapping, loadedOtherExtensionsPromise, awaiting,
                   globalMemento, updates, lookups, owner, writeFailed, listAtLoad, activations>>

\* The providers getter: starts the load, does not wait for it
providersGetter ==
    /\ rcalls < MaxCalls
    /\ rcalls' = rcalls + 1
    /\ loadOtherExtensions
    /\ lastCall' = Call("providers", "", "", "returned", 0, Registered)
    /\ UNCHANGED <<providers, regs, globalMemento, updates, lookups, owner, writeFailed>>

\* A lookup up to `await this.loadOtherExtensions()`
\* (provider: the provider getJupyterServerUri has read and awaits the handles of;
\* 0 while it has not read the map)
Lookup(kind, id, handle) == [kind |-> kind, id |-> id, handle |-> handle, provider |-> 0]
lookupCalled(l) ==
    /\ rcalls < MaxCalls
    /\ rcalls' = rcalls + 1
    /\ loadOtherExtensions
    /\ lookups' = lookups \cup {l}
    /\ lastCall' = Call(l.kind, l.id, "", "pending", 0, {})
    /\ UNCHANGED <<providers, regs, globalMemento, updates, owner, writeFailed>>

getProviders == lookupCalled(Lookup("getProviders", "", ""))
getProvider(id) == lookupCalled(Lookup("getProvider", id, ""))
getJupyterServerUri(id, handle) == lookupCalled(Lookup("getJupyterServerUri", id, handle))

\* provider.getHandles is defined: the providers of e2 have no getHandles
exposesGetHandles(n) == regs[n].extensionId # "e2"

\* getJupyterServerUri has read a provider with getHandles: it awaits provider.getHandles()
awaitsHandles(l) ==
    /\ l.kind = "getJupyterServerUri"
    /\ l.provider = 0
    /\ providers[l.id] # 0
    /\ exposesGetHandles(providers[l.id])

\* (mutant) the handle is not looked for among the handles of the provider
lookupResultAnyHandle(l) ==
    IF l.kind = "getProviders" THEN Call(l.kind, l.id, "", "returned", 0, Registered)
    ELSE IF l.kind = "getProvider"
    THEN Call(l.kind, l.id, "", "returned", 0, {providers[l.id]} \ {0})
    ELSE IF l.provider # 0
    THEN Call(l.kind, l.id, "", "returned", 0, {l.provider})
    ELSE IF providers[l.id] = 0
    THEN Call(l.kind, l.id, "", "unknownServerUri", 0, {})
    ELSE Call(l.kind, l.id, "", "returned", 0, {providers[l.id]})

\* What a lookup returns or throws: getProviders and getProvider after the await of
\* the load, getJupyterServerUri after it or after the await of getHandles. The
\* result of getJupyterServerUri is the provider whose getServerUri it called.
lookupResult(l) ==
    IF l.kind = "getProviders" THEN Call(l.kind, l.id, "", "returned", 0, Registered)
    ELSE IF l.kind = "getProvider"
    THEN Call(l.kind, l.id, "", "returned", 0, {providers[l.id]} \ {0})
    ELSE IF l.provider # 0
    THEN IF l.handle \notin getHandles(l.id)
         THEN Call(l.kind, l.id, MapGet(providerExtensionMapping, l.id),
                   "InvalidRemoteJupyterServerUriHandleError", 0, {})
         ELSE Call(l.kind, l.id, "", "returned", 0, {l.provider})
    ELSE IF providers[l.id] = 0
    THEN Call(l.kind, l.id, "", "unknownServerUri", 0, {})
    ELSE Call(l.kind, l.id, "", "returned", 0, {providers[l.id]})

\* The lookup may go on: the promise it awaits is resolved
lookupReady == Loaded

lookupContinues(l) ==
    /\ lookupReady
    /\ IF awaitsHandles(l)
       THEN /\ lookups' = (lookups \ {l}) \cup {[l EXCEPT !.provider = providers[l.id]]}
            /\ lastCall' = Call(l.kind, l.id, "", "pending", 0, {})
       ELSE /\ lookups' = lookups \ {l}
            /\ lastCall' = lookupResult(l)
    /\ UNCHANGED <<status, providers, regs, providerExtensionMapping,
                   loadedOtherExtensionsPromise, awaiting, globalMemento, updates, rcalls,
                   owner, writeFailed, listAtLoad, activations>>

\* The oldest globalMemento.update completes: the list is stored, or the update is
\* rejected (swallowed by @swallowExceptions and .catch(noop))
updateCompletes(ok) ==
    /\ updates # <<>>
    /\ updates' = Tail(updates)
    /\ globalMemento' = IF ok THEN Head(updates) ELSE globalMemento
    /\ writeFailed' = (writeFailed \/ ~ok)
    /\ UNCHANGED <<status, providers, regs, providerExtensionMapping,
                   loadedOtherExtensionsPromise, awaiting, lookups, rcalls, lastCall, owner,
                   listAtLoad, activations>>

\* The ids getProvider is called with
ProviderLookups == {"p1"}

\* The getJupyterServerUri calls made: a handle the provider reports, and one it does not
ServerUriCalls == {<<"p1", "h1">>, <<"p1", "gone">>}

\* Which extension registers which provider
Registrations == {<<"p1", "e1">>, <<"p1", "e2">>, <<"p2", "e2">>, <<"p2", "e3">>}

RNext ==
    \/ \E e \in OtherExtensions : hostActivates(e)
    \/ \E e \in OtherExtensions, ok \in BOOLEAN : activationSettles(e, ok)
    \/ \E r \in Registrations : registerProvider(r[1], r[2])
    \/ \E n \in 1..MaxCalls : dispose(n)
    \/ providersGetter
    \/ getProviders
    \/ \E id \in ProviderLookups : getProvider(id)
    \/ \E call \in ServerUriCalls : getJupyterServerUri(call[1], call[2])
    \/ \E l \in lookups : lookupContinues(l)
    \/ \E ok \in BOOLEAN : updateCompletes(ok)

\* ------------------------------------------------------------------------
\* The two specifications: the tracker, and the registry
\* ------------------------------------------------------------------------
vars == <<tvars, rvars>>
Init == TInit /\ RInit
Next == TNext /\ UNCHANGED rvars
Spec == Init /\ [][Next]_vars

RegNext == RNext /\ UNCHANGED tvars
RegSpec == Init /\ [][RegNext]_vars

\* ------------------------------------------------------------------------
\* Properties of LastCellExecutionTracker
\* ------------------------------------------------------------------------
\* The chain has nothing left to do
Drained == queue = <<>> /\ inflight = {}

\* A callback of the chain starts in this step
Starts == Len(queue') < Len(queue)

\* The update u settles in this step
Settles(u) == u \in inflight /\ \A v \in inflight' : v.op.n # u.op.n \/ v.key # u.key

\* The record the store holds for a notebook under a key (EmptyInfo: none)
Record(key, nb) ==
    IF uri(nb) \in DOMAIN MementoGet(key) THEN MementoGet(key)[uri(nb)] ELSE EmptyInfo

\* C1: the persistence callbacks run one at a time in the order they were chained:
\* a callback starts only when no update of an earlier one is pending, and it is the
\* one chained first among those waiting. No update is lost: the store always equals
\* what the settled updates give when applied one after the other, each to the
\* result of the one before, and once the chain has drained the store holds a record
\* for both of two notebooks of a server whose executions were recorded (and neither
\* deleted nor removed since, nor rejected by the store).
C1_Serialized ==
    [][ /\ Starts => /\ inflight = {}
                     /\ Head(queue).n = requests - Len(queue) + 1
                     /\ queue' = Tail(queue)
        /\ memento' = sequential'
        /\ Drained' =>
              \A key \in StateKeys : \A nb1, nb2 \in Notebooks :
                  (nb1 # nb2 /\ lastObserved'[key][nb1] # 0 /\ lastObserved'[key][nb2] # 0)
                      => {uri(nb1), uri(nb2)} \subseteq DOMAIN memento'[key].data ]_vars

\* Two notebooks of server s1 have both been recorded in this session, through two
\* chained writes, and both records are in the store
C1_Witness ==
    /\ Drained
    /\ requests = 2
    /\ Record(getStateKey("s1"), "nbA").msg_id \in MsgIds
    /\ Record(getStateKey("s1"), "nbB").msg_id \in MsgIds

\* C2: last write wins: once the chain has drained, the record of a notebook is the
\* info (message id, cell index, execution count) of the execution whose count was
\* observed last among the notebook's cells, unless a delete or a removal was
\* requested after it or its update failed
C2_LastWriteWins ==
    Drained =>
        \A k \in RemoteKernels, nb \in Notebooks :
            LET m == lastObserved[getStateKey(serverId(k))][nb]
                got == getLastTrackedCellExecution(nb, k)
            IN  m # 0 => /\ got.msg_id = objs[m].msg_id
                         /\ got.cellIndex = objs[m].cellIndex
                         /\ got.executionCount = objs[m].executionCount

\* Cells a1 and a2 of notebook nbA were both executed and observed, a2 last, and
\* the record is a2's
C2_Witness ==
    /\ Drained
    /\ executedCells["a1"] = 1 /\ objs[1].executionCount = 1
    /\ executedCells["a2"] = 2 /\ objs[2].executionCount = 1
    /\ lastObserved[getStateKey("s1")]["nbA"] = 2
    /\ getLastTrackedCellExecution("nbA", "k1").msg_id = 2

\* The callback of deleteTrackedCellExecution runs in this step
DeleteRuns == Starts /\ Head(queue).type = "delete"

\* All records but the one of the deleting cell's notebook stay as they are
OthersKept(key, nb) ==
    /\ \A other \in StateKeys \ {key} : memento'[other] = memento[other]
    /\ \A n \in DOMAIN MementoGet(key) \ {uri(nb)} :
            /\ memento'[key].present
            /\ n \in DOMAIN memento'[key].data
            /\ memento'[key].data[n] = MementoGet(key)[n]

\* C3 as claimed: deleteTrackedCellExecution deletes the notebook's record when the
\* cell index stored in it differs from the cell's index, and leaves all other
\* records unchanged
C3_DeletesOnMismatch ==
    [][ /\ DeleteRuns =>
            LET op == Head(queue)
                nb == notebook(op.cell)
            IN  /\ memento' = memento
                /\ (Record(op.id, nb) # EmptyInfo /\ Record(op.id, nb).cellIndex # index[op.cell])
                       => \E u \in inflight' : uri(nb) \notin DOMAIN u.value.data
        /\ \A u \in inflight : (u.op.type = "delete" /\ Settles(u))
                                   => OthersKept(u.key, notebook(u.op.cell)) ]_vars

\* C3, amended: deleteTrackedCellExecution deletes the notebook's record when the
\* cell index stored in it equals the cell's index (and the store takes the
\* update), leaves it when the two differ, and in every case leaves all other
\* records unchanged
C3_DeletesOnMatch ==
    [][ /\ DeleteRuns =>
            LET op == Head(queue)
                nb == notebook(op.cell)
                rec == Record(op.id, nb)
            IN  /\ memento' = memento
                /\ (rec # EmptyInfo /\ rec.cellIndex = index[op.cell])
                       => \E u \in inflight' :
                              /\ u.key = op.id
                              /\ u.value = Object(DeleteProperty(MementoGet(op.id), uri(nb)))
                /\ (rec # EmptyInfo /\ rec.cellIndex # index[op.cell]) => inflight' = {}
        /\ \A u \in inflight : (u.op.type = "delete" /\ Settles(u)) =>
                /\ OthersKept(u.key, notebook(u.op.cell))
                /\ \/ memento' = memento
                   \/ uri(notebook(u.op.cell)) \notin DOMAIN memento'[u.key].data ]_vars

\* The record of nbA is being deleted, and the record of nbB under the same key is kept
C3_Witness ==
    \E u \in inflight :
        /\ u.op.type = "delete"
        /\ uri("nbB") \in DOMAIN u.value.data
        /\ Record(u.key, "nbA").msg_id \in MsgIds

\* C4: once the write of a server's removal has completed, the store holds no record
\* for that server until an execution is recorded after the removal was requested,
\* whatever was recorded before; and the removal leaves the other servers' records
\* as they are
C4_RemovalWipes ==
    [][ /\ \A key \in StateKeys : wiped'[key] => memento'[key] = NoValue
        /\ \A k \in RemoteKernels, nb \in Notebooks :
              wiped'[getStateKey(serverId(k))] => getLastTrackedCellExecution(nb, k)' = EmptyInfo
        /\ \A u \in inflight : (u.op.type = "remove" /\ Settles(u)) =>
              \A other \in StateKeys \ {u.key} : memento'[other] = memento[other] ]_vars

\* Server s1 has been wiped after an execution was recorded on it in this session,
\* and the record of server s2 is still there
C4_Witness ==
    /\ wiped[getStateKey("s1")]
    /\ objs[1].executionCount = 1
    /\ Record(getStateKey("s2"), "nbB") # EmptyInfo

\* C7: the chain swallows every error: it never ends up rejected
C7_ChainNeverRejected == chainRejected = FALSE

\* A record with every field of CellExecutionInfo assigned
Complete(info) ==
    /\ info.msg_id # Undefined
    /\ info.kernelId # ""
    /\ info.cellIndex # Undefined
    /\ info.startTime # Undefined
    /\ info.executionCount # Undefined

Tracked(c, k) == isRemoteConnection(k) /\ ~isUntitled(notebook(c))

LatestSentFor(c) ==
    LET sent == {m \in MsgIds : sentFor[m] = c}
    IN  IF sent = {} THEN 0 ELSE CHOOSE m \in sent : \A x \in sent : x <= m

\* The info of request m is no longer the one kept for its cell: the cell was
\* tracked again (executedCells.delete) or a later request was recorded for it
Stale(m) == sentFor[m] # "" /\ executedCells[sentFor[m]] # m

\* The trackLastExecution callbacks this step chains
ChainedNow == {op \in {queue'[i] : i \in 1..Len(queue')} : op.n > requests /\ op.type = "track"}

\* A received message changes an info only when its parent is the msg_id recorded
\* from the request sent for the cell, and never the info of a request gone stale,
\* which is never handed to trackLastExecution either
RepliesCorrelated ==
    /\ strayChanges' = {}
    /\ \A m \in MsgIds :
          Stale(m) => /\ objs'[m] = objs[m]
                      /\ \A op \in ChainedNow : op.obj # m

\* C16 (as stated): a received message changes a tracked cell's info only if its
\* parent message id is the one recorded from the execute_request sent for that
\* cell; replies to a request sent before the cell was tracked again change no info
\* and are not persisted; and the message id of a record of the store is always that
\* of the most recent execute_request sent for the record's cell
C16_RecordIdAlwaysLatest ==
    [][/\ RepliesCorrelated
       /\ \A key \in StateKeys, nb \in Notebooks :
             Record(key, nb)'.msg_id \in MsgIds =>
                 Record(key, nb)'.msg_id = LatestSentFor(sentFor[Record(key, nb).msg_id])'
      ]_vars

\* C16 (amended): the same correlation of replies; the info handed to
\* trackLastExecution is that of the most recent execute_request sent for the cell
\* at the time the execution count is observed, and the message id of a record of the
\* store is that of a request sent for a cell of the record's notebook (a later
\* request for the cell leaves the record as it is until its own count is observed)
C16_RecordIdLatestWhenObserved ==
    [][/\ RepliesCorrelated
       /\ \A op \in ChainedNow :
             /\ sentFor[op.obj] = op.cell
             /\ op.obj = LatestSentFor(op.cell)
             /\ op.obj = executedCells[op.cell]
       /\ \A key \in StateKeys, nb \in Notebooks :
             Record(key, nb)'.msg_id \in MsgIds =>
                 notebook(sentFor'[Record(key, nb)'.msg_id]) = nb
      ]_vars

\* A cell was executed twice: the first request got a reply (its start time is set)
\* but its info was dropped before a count was taken, and the record of the store is
\* that of the second request
C16_Witness ==
    /\ sentFor[1] = "a1" /\ sentFor[2] = "a1"
    /\ objs[1].startTime # Undefined
    /\ objs[1].executionCount = Undefined
    /\ Record(getStateKey("s1"), "nbA").msg_id = 2

\* ------------------------------------------------------------------------
\* Properties of JupyterUriProviderRegistration
\* ------------------------------------------------------------------------
\* A lookup reads the provider map in this step
LookupReads == \E l \in lookups \ lookups' : l.provider = 0

\* The activate() of an extension has settled, or the extension was active already
ActivationSettled(e) == status[e] \in {"active", "failed"}

\* The extensions a lookup is said to wait for, given the persisted list: the owners
\* in the list and the contributors, but for this extension itself
WaitedFor(list) ==
    {e \in OtherExtensions :
        contributes(e) \/ \E i \in 1..Len(list) : list[i].extensionId = e}

\* The registration n is visible in what a lookup returned
VisibleIn(call, n) ==
    IF call.op = "getProviders" THEN n \in call.result
    ELSE call.id = regs[n].id =>
             IF call.op = "getProvider" THEN n \in call.result
             ELSE call.outcome # "unknownServerUri"

\* C5 as claimed: a lookup does not read the provider map until activate() has
\* settled for every installed extension that is an owner in the persisted list or
\* declares the contribution
C5_WaitsForOwnersInList ==
    [][ LookupReads => \A e \in WaitedFor(globalMemento) : ActivationSettled(e) ]_vars

\* C5, amended: a lookup does not read the provider map until activate() has settled
\* for every installed extension that was an owner in the persisted list when the
\* load started, or declares the contribution; a provider registered during such an
\* activation and not disposed of since is visible to the lookup
C5_WaitsForExtensionsAtLoad ==
    [][ LookupReads =>
            /\ loadedOtherExtensionsPromise = "created"
            /\ \A e \in WaitedFor(listAtLoad) : ActivationSettled(e)
            /\ \A n \in 1..Len(regs) :
                  (regs[n].inLoad /\ ~regs[n].removed) => VisibleIn(lastCall', n) ]_vars

\* getProviders has returned the provider that e1, activated by the load because the
\* persisted list names it, registered during its activation
C5_Witness ==
    /\ lastCall.op = "getProviders"
    /\ lastCall.outcome = "returned"
    /\ \E n \in lastCall.result : regs[n].inLoad /\ regs[n].extensionId = "e1"

\* The entries of the persisted list for a provider id
EntriesOf(id) == {i \in 1..Len(globalMemento) : globalMemento[i].providerId = id}

\* C6: once all updates have completed (none of them rejected), the persisted list
\* has exactly one entry per provider id that was registered or was in the list
\* already, and the entry names the extension that registered the id last
C6_ListNamesLastRegistrant ==
    (updates = <<>> /\ ~writeFailed) =>
        \A id \in ProviderIds :
            IF owner[id] = "" THEN EntriesOf(id) = {}
            ELSE /\ Cardinality(EntriesOf(id)) = 1
                 /\ \A i \in EntriesOf(id) : globalMemento[i].extensionId = owner[id]

\* The registrations of an id that have not been removed from the map
Live(id) == {n \in 1..Len(regs) : regs[n].id = id /\ ~regs[n].removed}

\* C10: registerProvider with an id that is registered throws and changes nothing:
\* the map, the registration of the id, the persisted list and the updates pending
\* stay as they are and no event fires; with an id that is not registered it
\* returns; the map never holds two providers of one id
C10_DuplicateIdThrows ==
    [][ /\ (rcalls' = rcalls + 1 /\ lastCall'.op = "registerProvider") =>
              IF providers[lastCall'.id] # 0
              THEN /\ lastCall'.outcome = "already exists"
                   /\ lastCall'.fired = 0
                   /\ providers' = providers
                   /\ regs' = regs
                   /\ providerExtensionMapping' = providerExtensionMapping
                   /\ updates' = updates
                   /\ globalMemento' = globalMemento
              ELSE /\ lastCall'.outcome = "returned"
                   /\ lastCall'.fired = 1
                   /\ providers'[lastCall'.id] = Len(regs')
        /\ \A id \in ProviderIds : Cardinality(Live(id)') <= 1 ]_vars

\* An extension has tried to register an id another extension holds
C10_Witness ==
    /\ lastCall.op = "registerProvider"
    /\ lastCall.outcome = "already exists"
    /\ providers[lastCall.id] # 0
    /\ regs[providers[lastCall.id]].extensionId # lastCall.extensionId

\* A handle is disposed of in this step
DisposeCalled == rcalls' = rcalls + 1 /\ lastCall'.op = "dispose"

\* C11: disposing a handle removes only the provider the handle registered: a
\* provider of the same id registered later, through another handle, stays in the map
C11_DisposeRemovesOwnOnly ==
    [][ DisposeCalled =>
            \A id \in ProviderIds :
                (providers[id] # 0 /\ providers[id] \notin lastCall'.result)
                    => providers'[id] = providers[id] ]_vars

\* A call is made to the registry in this step
RegistryCalled == rcalls' = rcalls + 1

\* C12: a successful registerProvider fires onDidChangeProviders once, with the
\* provider in the map; a dispose fires it once, with the provider removed; the event
\* never fires with the set of registered providers as it was at the firing before
\* (the set changes in no step that does not fire, so that is the set before the call)
C12_FiresOncePerChange ==
    [][ RegistryCalled =>
            /\ (lastCall'.op = "registerProvider" /\ lastCall'.outcome = "returned")
                   => (lastCall'.fired = 1 /\ providers'[lastCall'.id] # 0)
            /\ lastCall'.op = "dispose"
                   => (lastCall'.fired = 1 /\ providers'[lastCall'.id] = 0)
            /\ lastCall'.fired > 0 => Registered' # Registered
            /\ lastCall'.fired = 0 => Registered' = Registered ]_vars

\* C13: the registry calls activate() at most once on each extension, however the
\* providers getter and the lookups are called, and never on this extension itself
\* or on an extension that is active when the load starts
C13_ActivatesAtMostOnce ==
    [][ \A e \in Installed :
            /\ activations'[e] <= 1
            /\ activations'[e] # activations[e] => (e # JVSC_EXTENSION_ID /\ ~isActive(e)) ]_vars

\* The providers getter and two lookups have been called; e1 was activated by the
\* load, once; e2, which contributes, was active before the load and was not
C13_Witness ==
    /\ lastCall.op = "providers"
    /\ Cardinality(lookups) >= 2
    /\ activations["e1"] = 1
    /\ activations["e2"] = 0 /\ isActive("e2")
    /\ activations[JVSC_EXTENSION_ID] = 0

\* getJupyterServerUri returns or throws in this step, for the lookup l
ServerUriSettles(l) ==
    /\ l \in lookups \ lookups'
    /\ l.kind = "getJupyterServerUri"
    /\ lastCall'.outcome # "pending"

\* C14: getJupyterServerUri calls getServerUri of the provider, and returns its
\* result, only when it found a provider under the id and, if the provider has
\* getHandles, the handle is among the handles reported; it throws the unknown
\* server error when it finds no provider under the id and
\* InvalidRemoteJupyterServerUriHandleError when the handle is not among the handles
\* reported, and then calls no getServerUri
C14_ServerUriOnlyForKnownHandle ==
    [][ /\ \A l \in lookups :
              ServerUriSettles(l) =>
                  LET found == IF l.provider # 0 THEN l.provider ELSE providers[l.id]
                      known == l.provider # 0 => l.handle \in getHandles(l.id)
                  IN  /\ lastCall'.outcome = "returned"
                             <=> (found # 0 /\ known)
                      /\ lastCall'.outcome = "unknownServerUri" <=> found = 0
                      /\ lastCall'.outcome = "InvalidRemoteJupyterServerUriHandleError"
                             <=> (found # 0 /\ ~known)
                      /\ lastCall'.result = IF found # 0 /\ known THEN {found} ELSE {}
        /\ \A l \in lookups' \ lookups :
              l.provider # 0 =>
                  /\ l.provider = providers[l.id]
                  /\ exposesGetHandles(l.provider) ]_vars

\* getJupyterServerUri has thrown InvalidRemoteJupyterServerUriHandleError for a
\* handle the provider of e1 does not report
C14_Witness ==
    /\ lastCall.op = "getJupyterServerUri"
    /\ lastCall.outcome = "InvalidRemoteJupyterServerUriHandleError"
    /\ lastCall.extensionId = "e1"
    /\ lastCall.result = {}

\* getProviders or getProvider returns in this step, for the lookup l
ProviderLookupSettles(l) ==
    /\ l \in lookups \ lookups'
    /\ l.kind \in {"getProviders", "getProvider"}

\* An update of the persisted list is rejected in this step
WriteFails == Len(updates') < Len(updates) /\ globalMemento' = globalMemento

\* C15: a rejected activate() and a rejected update of the list fail no operation of
\* the registry: a rejected activation ends the wait of the load as a resolved one
\* does, so that the lookups go on; getProviders and getProvider return, never throw,
\* and return the providers in the map, those of an extension whose activation was
\* rejected included; registerProvider of a free id returns with the provider in the
\* map; a rejected update changes nothing but the updates pending
C15_FailuresSwallowed ==
    [][ /\ \A e \in OtherExtensions :
              (status[e] = "activating" /\ status'[e] \in {"active", "failed"})
                  => e \notin awaiting'
        /\ (loadedOtherExtensionsPromise' = "created"
              /\ \A e \in OtherExtensions : status'[e] # "activating") => lookupReady'
        /\ \A l \in lookups :
              ProviderLookupSettles(l) =>
                  /\ lastCall'.outcome = "returned"
                  /\ lastCall'.result =
                         IF l.kind = "getProviders"
                         THEN {n \in 1..Len(regs) : ~regs[n].removed}
                         ELSE {n \in 1..Len(regs) : ~regs[n].removed /\ regs[n].id = l.id}
        /\ (RegistryCalled /\ lastCall'.op = "registerProvider" /\ providers[lastCall'.id] = 0)
              => (lastCall'.outcome = "returned" /\ providers'[lastCall'.id] # 0)
        /\ WriteFails => /\ providers' = providers
                         /\ regs' = regs
                         /\ lookups' = lookups
                         /\ lastCall' = lastCall
                         /\ providerExtensionMapping' = providerExtensionMapping ]_vars

\* getProviders has returned a provider that an extension registered during an
\* activation the load waited for and that was rejected, after an update of the list
\* was rejected
C15_Witness ==
    /\ lastCall.op = "getProviders"
    /\ lastCall.outcome = "returned"
    /\ writeFailed
    /\ updates = <<>>
    /\ \E n \in lastCall.result : regs[n].inLoad /\ status[regs[n].extensionId] = "failed"

====
